---- MODULE Spec2Model ----
(***************************************************************************)
(* The Confirm operation of the payment pipeline                           *)
(* (crates/router/src/core/payments/operations/payment_confirm_intent.rs). *)
(*                                                                         *)
(* Every request is an independent task (a "run").  A run goes through     *)
(* validate_request, get_trackers, the Domain capabilities and             *)
(* update_trackers.  Every storage call is an await: the code between two  *)
(* awaits is one atomic action, so runs interleave at the storage calls.   *)
(* The storage layer is not part of the operation file: it is modelled     *)
(* from its contract (find / insert / update with prior version + delta).  *)
(***************************************************************************)
EXTENDS Integers, Sequences, FiniteSets, TLC

\* ------------------------------------------------------------------ bounds

\* Number of concurrent Confirm requests.
MaxRuns == 2

Runs == 1..MaxRuns

\* ------------------------------------------------------------- value sets

None == "None"

\* Payment ids a request may name; only PersistedPaymentIds have an intent.
PaymentIds == {"pay_1", "pay_2"}
PersistedPaymentIds == {"pay_1"}

\* Business profiles that exist; an intent may point to a missing profile.
ProfileIds == {"pro_1", "pro_2"}
PersistedProfileIds == {"pro_1"}

OrderAmounts == {1000}

IntentStatus ==
    {"RequiresPaymentMethod", "RequiresConfirmation", "Processing",
     "Succeeded", "Failed", "RequiresCapture", "Cancelled"}

TerminalIntentStatus == {"Succeeded", "Failed", "Cancelled"}

MerchantStorageScheme == {"PostgresOnly", "RedisKv"}

\* Outcomes of the routing contribution for the two routing fields.
Connectors == {None, "stripe"}
MerchantConnectorIds == {None, "mca_1"}

MerchantId == "merchant_1"
CellId == "cell_1"

\* Placeholders of the bundle's fields before get_trackers has filled them.
NoIntent ==
    [id |-> None, merchant_id |-> None, profile_id |-> None, status |-> None,
     order_amount |-> 0, updated_by |-> None, version |-> 0]

NoAttempt ==
    [id |-> <<None, 0>>, payment_id |-> None, merchant_id |-> None,
     profile_id |-> None, status |-> None, connector |-> None,
     merchant_connector_id |-> None, payment_method_type |-> None,
     payment_method_subtype |-> None, net_amount |-> 0,
     amount_capturable |-> 0, updated_by |-> None, version |-> 0]

NoBundle ==
    [payment_intent |-> NoIntent, payment_attempt |-> NoAttempt,
     payment_method_data |-> None]

\* The request's payment method fields.
PaymentMethodTypes == {"card", "wallet"}
PaymentMethodSubtypes == {"credit", "apple_pay"}

ConfirmRequests ==
    [payment_method_type : PaymentMethodTypes,
     payment_method_subtype : PaymentMethodSubtypes]

NoRequest == [payment_method_type |-> None, payment_method_subtype |-> None]

\* The request the runs of the whole pipeline carry.
PipelineRequests ==
    {[payment_method_type |-> "card", payment_method_subtype |-> "credit"]}

\* No PaymentMethodCreate validated, no load_metrics call made.
NoPaymentMethodCreate == [variant |-> None]

NoLoadMetrics == [called |-> FALSE]

NoValidateResult == [merchant_id |-> None, storage_scheme |-> None, requeue |-> FALSE]

NoIntentUpdate == [status |-> None, updated_by |-> None]

NoAttemptUpdate ==
    [status |-> None, updated_by |-> None, connector |-> None,
     merchant_connector_id |-> None]

NoHist ==
    [read_version |-> -1, read_status |-> None, inserted |-> NoAttempt,
     intent_res |-> None, attempt_res |-> None, prior_sent |-> NoIntent,
     missing_field |-> None, customer |-> "unset", pm_data |-> "unset",
     attempt_prior_sent |-> NoAttempt, read_intent |-> NoIntent,
     intent_reads |-> 0, insert_res |-> None, profile_res |-> None, updated_intent |-> NoIntent,
     updated_attempt |-> NoAttempt, received |-> NoBundle,
     storage_schemes |-> {}, payment_intent_update |-> NoIntentUpdate,
     payment_attempt_update |-> NoAttemptUpdate]

\* ------------------------------------------------------------------ state

VARIABLES
    intents,            \* store: payment id -> persisted PaymentIntent
    attempts,           \* store: attempt id -> persisted PaymentAttempt
    merchant_account,   \* the resolved merchant account (id, storage_scheme)
    pc,                 \* run -> position of the task
    payment_id,         \* run -> payment id of the request
    request,            \* run -> the PaymentsConfirmIntentRequest
    validate_result,    \* run -> ValidateResult returned by stage 1
    payment_data,       \* run -> PaymentConfirmData bundle carried in memory
    err,                \* run -> ApiErrorResponse returned to the caller
    cause,              \* run -> storage error below err (the report's source)
    calls,              \* run -> stage entry points called so far, in order
    hist,               \* run -> what the run read, inserted and was answered
    pm_create,          \* a PaymentMethodCreate and what validate returned for it
    metrics             \* a FailureReasons::load_metrics call and what it returned

vars ==
    <<intents, attempts, merchant_account, pc, payment_id, request,
      validate_result, payment_data, err, cause, calls, hist, pm_create,
      metrics>>

\* ------------------------------------------------ storage access layer

\* Result of a storage call: the entity, or a storage error.
StorageOk(v) == [ok |-> TRUE, val |-> v, error |-> None]
StorageErr(e, v) == [ok |-> FALSE, val |-> v, error |-> e]

\* find_payment_intent_by_id: the persisted intent or ValueNotFound; `fault`
\* is a failure of the backend itself (connection, decryption).
FindPaymentIntentById(pid, fault) ==
    IF fault THEN StorageErr("DatabaseError", NoIntent)
    ELSE IF pid \notin DOMAIN intents THEN StorageErr("ValueNotFound", NoIntent)
    ELSE StorageOk(intents[pid])

\* insert_payment_attempt: an unconditional insert of a new row.
InsertPaymentAttempt(attempt, fault) ==
    IF fault THEN StorageErr("DatabaseError", NoAttempt)
    ELSE IF attempt.id \in DOMAIN attempts THEN StorageErr("DuplicateValue", NoAttempt)
    ELSE StorageOk(attempt)

\* find_business_profile_by_profile_id.
FindBusinessProfileByProfileId(profile_id, fault) ==
    IF fault THEN StorageErr("DatabaseError", None)
    ELSE IF profile_id \notin PersistedProfileIds THEN StorageErr("ValueNotFound", None)
    ELSE StorageOk(profile_id)

\* The row a ConfirmIntent delta produces from the prior intent.
ApplyPaymentIntentUpdate(prior, delta) ==
    [prior EXCEPT !.status = delta.status,
                  !.updated_by = delta.updated_by,
                  !.version = prior.version + 1]

\* update_payment_intent(prior, delta): conditional on the caller's view of
\* the prior entity; a stale prior is a Conflict, never a blind overwrite.
UpdatePaymentIntent(prior, delta, fault) ==
    IF fault THEN StorageErr("DatabaseError", NoIntent)
    ELSE IF prior.id \notin DOMAIN intents THEN StorageErr("ValueNotFound", NoIntent)
    ELSE IF intents[prior.id].version # prior.version THEN StorageErr("Conflict", NoIntent)
    ELSE StorageOk(ApplyPaymentIntentUpdate(prior, delta))

\* The row a ConfirmIntent delta produces from the prior attempt.
ApplyPaymentAttemptUpdate(prior, delta) ==
    [prior EXCEPT !.status = delta.status,
                  !.updated_by = delta.updated_by,
                  !.connector = delta.connector,
                  !.merchant_connector_id = delta.merchant_connector_id,
                  !.version = prior.version + 1]

\* update_payment_attempt(prior, delta): conditional like the intent update.
UpdatePaymentAttempt(prior, delta, fault) ==
    IF fault THEN StorageErr("DatabaseError", NoAttempt)
    ELSE IF prior.id \notin DOMAIN attempts THEN StorageErr("ValueNotFound", NoAttempt)
    ELSE IF attempts[prior.id].version # prior.version THEN StorageErr("Conflict", NoAttempt)
    ELSE StorageOk(ApplyPaymentAttemptUpdate(prior, delta))

\* ----------------------------------------------------- error conversions

\* to_not_found_response(e): ValueNotFound becomes the given not-found
\* response, every other storage error InternalServerError.
ToNotFoundResponse(storage_error, not_found) ==
    IF storage_error = "ValueNotFound" THEN not_found ELSE "InternalServerError"

\* change_context(e): the caller sees e whatever the storage error was.
ChangeContext(storage_error, context) == context

\* The response category of an ApiErrorResponse.
ErrorCategories == {"not-found", "validation", "conflict", "internal"}

ErrorCategory(e) ==
    CASE e \in {"PaymentNotFound", "ProfileNotFound"} -> "not-found"
      [] e = "MissingRequiredField" -> "internal"
      [] e = "InternalServerError" -> "internal"
      [] OTHER -> "unknown"

\* MerchantStorageScheme's Display, as written into updated_by.
SchemeToString(storage_scheme) ==
    CASE storage_scheme = "PostgresOnly" -> "postgres_only"
      [] storage_scheme = "RedisKv" -> "redis_kv"
      [] OTHER -> None

\* ------------------------------------------------- payment_confirm_intent

\* validate_payment_method_type_against_payment_method: whether the subtype
\* belongs to the payment method.
ValidatePaymentMethodTypeAgainstPaymentMethod(payment_method, payment_method_type) ==
    \/ payment_method = "card" /\ payment_method_type \in {"credit", "debit"}
    \/ payment_method = "wallet" /\ payment_method_type \in {"apple_pay", "google_pay"}
    \/ payment_method = "bank_redirect" /\ payment_method_type = "ideal"
    \/ payment_method = "pay_later" /\ payment_method_type = "klarna"

\* GlobalAttemptId::generate(&cell_id): an id namespaced to the cell; the
\* generator's entropy is the nonce, which no two calls share (each request
\* makes one call, so the request's number stands for it).
GenerateGlobalAttemptId(cell_id, nonce) == <<cell_id, nonce>>

\* create_domain_model_from_request with connector prefilled: a half-routed
\* attempt at creation.
CreateDomainModelPrefilledConnector(req, payment_intent, storage_scheme, id) ==
    [id |-> id,
     payment_id |-> payment_intent.id,
     merchant_id |-> payment_intent.merchant_id,
     profile_id |-> payment_intent.profile_id,
     status |-> "Started",
     connector |-> "stripe",
     merchant_connector_id |-> None,
     payment_method_type |-> req.payment_method_type,
     payment_method_subtype |-> req.payment_method_subtype,
     net_amount |-> payment_intent.order_amount,
     amount_capturable |-> 0,
     updated_by |-> SchemeToString(storage_scheme),
     version |-> 0]

\* create_domain_model_from_request creating the attempt already Pending.
CreateDomainModelPending(req, payment_intent, storage_scheme, id) ==
    [id |-> id,
     payment_id |-> payment_intent.id,
     merchant_id |-> payment_intent.merchant_id,
     profile_id |-> payment_intent.profile_id,
     status |-> "Pending",
     connector |-> None,
     merchant_connector_id |-> None,
     payment_method_type |-> req.payment_method_type,
     payment_method_subtype |-> req.payment_method_subtype,
     net_amount |-> payment_intent.order_amount,
     amount_capturable |-> 0,
     updated_by |-> SchemeToString(storage_scheme),
     version |-> 0]

\* create_domain_model_from_request with an attempt id that does not use
\* the generated one: the same id for every attempt of the cell.
CreateDomainModelFixedId(req, payment_intent, storage_scheme, id) ==
    [id |-> <<id[1], 0>>,
     payment_id |-> payment_intent.id,
     merchant_id |-> payment_intent.merchant_id,
     profile_id |-> payment_intent.profile_id,
     status |-> "Started",
     connector |-> None,
     merchant_connector_id |-> None,
     payment_method_type |-> req.payment_method_type,
     payment_method_subtype |-> req.payment_method_subtype,
     net_amount |-> payment_intent.order_amount,
     amount_capturable |-> 0,
     updated_by |-> SchemeToString(storage_scheme),
     version |-> 0]

\* create_domain_model_from_request: the PaymentAttempt built from the intent.
CreateDomainModelFromRequest(req, payment_intent, storage_scheme, id) ==
    [id |-> id,
     payment_id |-> payment_intent.id,
     merchant_id |-> payment_intent.merchant_id,
     profile_id |-> payment_intent.profile_id,
     status |-> "Started",
     connector |-> None,
     merchant_connector_id |-> None,
     payment_method_type |-> req.payment_method_type,
     payment_method_subtype |-> req.payment_method_subtype,
     net_amount |-> payment_intent.order_amount,
     amount_capturable |-> 0,
     updated_by |-> SchemeToString(storage_scheme),
     version |-> 0]

\* get_trackers' storage scheme: the merchant account's; and a get_trackers
\* that uses the default scheme whatever the merchant's is.
GetTrackersDefaultStorageScheme == "PostgresOnly"

GetTrackersStorageScheme == merchant_account.storage_scheme

\* The `?` after a fallible call: continue on Ok, return the error otherwise.
PropagateIgnoringError(ok, next) == next

Propagate(ok, next) == IF ok THEN next ELSE "failed"

\* The not-found response get_trackers gives for a missing intent.
IntentNotFoundAsInternal == "InternalServerError"

IntentNotFoundError == "PaymentNotFound"

\* update_trackers' statuses.
IntentStatusLeftUnchanged == "RequiresConfirmation"

ConfirmIntentStatus == "Processing"

ConfirmAttemptStatus == "Pending"

\* get_required_value on connector and on merchant_connector_id: the first
\* missing field, or None when both are present.
MissingFieldConnectorOnly(payment_attempt) ==
    IF payment_attempt.connector = None THEN "connector" ELSE None

MissingRequiredField(payment_attempt) ==
    IF payment_attempt.connector = None THEN "connector"
    ELSE IF payment_attempt.merchant_connector_id = None THEN "merchant_connector_id"
    ELSE None

\* PaymentIntentUpdate::ConfirmIntent { status, updated_by }.
PaymentIntentUpdateConfirmIntent(storage_scheme) ==
    [status |-> ConfirmIntentStatus, updated_by |-> SchemeToString(storage_scheme)]

\* PaymentAttemptUpdate::ConfirmIntent { status, updated_by, connector,
\* merchant_connector_id }.
PaymentAttemptUpdateConfirmIntent(storage_scheme, connector, merchant_connector_id) ==
    [status |-> ConfirmAttemptStatus,
     updated_by |-> SchemeToString(storage_scheme),
     connector |-> connector,
     merchant_connector_id |-> merchant_connector_id]

\* The prior intent handed to update_payment_intent, re-read from the store
\* right before the update instead of carried from get_trackers.
CurrentPaymentIntentReread(r) ==
    IF payment_data[r].payment_intent.id \in DOMAIN intents
    THEN intents[payment_data[r].payment_intent.id]
    ELSE payment_data[r].payment_intent

\* The prior intent handed to update_payment_intent: the bundle's copy.
CurrentPaymentIntent(r) == payment_data[r].payment_intent

\* The prior attempt handed to update_payment_attempt, re-read from the store
\* right before the update instead of carried in the bundle.
CurrentPaymentAttemptReread(r) ==
    IF payment_data[r].payment_attempt.id \in DOMAIN attempts
    THEN attempts[payment_data[r].payment_attempt.id]
    ELSE payment_data[r].payment_attempt

\* The prior attempt handed to update_payment_attempt: the bundle's copy.
CurrentPaymentAttempt(r) == payment_data[r].payment_attempt

\* update_trackers' assignments of the storage results to the bundle; and an
\* update_trackers that returns the bundle as it received it.
AssignUpdatedKeepingPrior(bundle, updated) == bundle

AssignUpdatedPaymentIntent(bundle, updated_payment_intent) ==
    [bundle EXCEPT !.payment_intent = updated_payment_intent]

AssignUpdatedPaymentAttempt(bundle, updated_payment_attempt) ==
    [bundle EXCEPT !.payment_attempt = updated_payment_attempt]

\* The order of update_trackers' two storage calls: the intent update is
\* awaited first, the attempt update second.
UpdateStepOfAttemptFirst(entity) ==
    IF entity = "attempt" THEN "update_first" ELSE "update_second"

UpdateStepOf(entity) ==
    IF entity = "intent" THEN "update_first" ELSE "update_second"

AfterUpdateStep(step) == IF step = "update_first" THEN "update_second" ELSE "done"

\* get_customer_details: the customer it returns, and what it leaves in the
\* bundle it got by mutable reference.
GetCustomerDetailsCustomer == None

GetCustomerDetailsBundle(bundle) == bundle

\* make_pm_data: the payment method data it returns, and what it leaves in
\* the bundle; and a make_pm_data that routes the attempt while it is there.
MakePmDataPaymentMethodData == None

MakePmDataRoutingAttempt(bundle) ==
    [bundle EXCEPT !.payment_attempt.connector = "stripe"]

MakePmDataBundle(bundle) == bundle

\* The entry points, and the pipeline stage each belongs to.
StageOf(call) ==
    CASE call = "validate_request" -> 1
      [] call = "get_trackers" -> 2
      [] call \in {"get_customer_details", "make_pm_data", "get_connector"} -> 3
      [] call = "update_trackers" -> 4
      [] OTHER -> 0

\* The runner: the entry point it calls after one that returned Ok.  After
\* the Domain capabilities the routing decision is taken ("route").
RunnerNext(call) ==
    CASE call = "validate_request" -> "find_intent"
      [] call = "get_trackers" -> "get_customer_details"
      [] call = "get_customer_details" -> "make_pm_data"
      [] call = "make_pm_data" -> "route"
      [] call = "route" -> "update_first"
      [] OTHER -> "done"

\* The order of get_trackers' storage calls: the intent read, the attempt
\* insert, the profile lookup; and a get_trackers that looks the profile up
\* before it inserts the attempt.
GetTrackersProfileBeforeInsert(step) ==
    CASE step = "find_intent" -> "find_profile"
      [] step = "find_profile" -> "insert_attempt"
      [] OTHER -> RunnerNext("get_trackers")

GetTrackersStepAfter(step) ==
    CASE step = "find_intent" -> "insert_attempt"
      [] step = "insert_attempt" -> "find_profile"
      [] OTHER -> RunnerNext("get_trackers")

UnchangedStore == UNCHANGED <<intents, attempts, merchant_account>>

\* The Confirm pipeline touches neither of the other two programs' state.
UnchangedOthers == UNCHANGED <<pm_create, metrics>>

\* ------------------------------------------------------------------ Init

InitConfirm ==
    /\ intents \in
         [PersistedPaymentIds ->
            [id : PersistedPaymentIds, merchant_id : {MerchantId},
             profile_id : ProfileIds, status : IntentStatus,
             order_amount : OrderAmounts, updated_by : {"postgres_only"},
             version : {0}]]
    /\ \A p \in PersistedPaymentIds : intents[p].id = p
    /\ attempts = [a \in {} |-> NoAttempt]
    /\ merchant_account \in [id : {MerchantId}, storage_scheme : MerchantStorageScheme]
    /\ pc = [r \in Runs |-> "idle"]
    /\ payment_id = [r \in Runs |-> None]
    /\ request = [r \in Runs |-> NoRequest]
    /\ validate_result = [r \in Runs |-> NoValidateResult]
    /\ payment_data = [r \in Runs |-> NoBundle]
    /\ err = [r \in Runs |-> None]
    /\ cause = [r \in Runs |-> None]
    /\ calls = [r \in Runs |-> <<>>]
    /\ hist = [r \in Runs |-> NoHist]

Init ==
    /\ InitConfirm
    /\ pm_create = NoPaymentMethodCreate
    /\ metrics = NoLoadMetrics

\* The Confirm pipeline at rest: one store, no request ever started.
ConfirmAtRest ==
    /\ InitConfirm
    /\ merchant_account.storage_scheme = "PostgresOnly"
    /\ \A p \in PersistedPaymentIds :
           /\ intents[p].status = "RequiresConfirmation"
           /\ intents[p].profile_id \in PersistedProfileIds

\* --------------------------------------------------------------- stage 1

\* A request req for payment id pid arrives and validate_request runs: it
\* does not look at the request, cannot fail, and returns the merchant's id
\* and storage scheme.
ValidateRequest(r, pid, req) ==
    /\ pc[r] = "idle"
    /\ IF r = 1 THEN TRUE ELSE pc[r - 1] # "idle"
    /\ payment_id' = [payment_id EXCEPT ![r] = pid]
    /\ request' = [request EXCEPT ![r] = req]
    /\ validate_result' =
         [validate_result EXCEPT ![r] =
            [merchant_id |-> merchant_account.id,
             storage_scheme |-> merchant_account.storage_scheme,
             requeue |-> FALSE]]
    /\ calls' = [calls EXCEPT ![r] = Append(@, "validate_request")]
    /\ pc' = [pc EXCEPT ![r] = RunnerNext("validate_request")]
    /\ UnchangedStore
    /\ UNCHANGED <<payment_data, err, cause, hist>>
    /\ UnchangedOthers

\* --------------------------------------------------------------- stage 2

\* get_trackers up to its first `?`: find_payment_intent_by_id.
GetTrackersFindIntent(r) ==
    /\ pc[r] = "find_intent"
    /\ \E fault \in BOOLEAN :
         LET res == FindPaymentIntentById(payment_id[r], fault) IN
         /\ payment_data' = [payment_data EXCEPT ![r].payment_intent = res.val]
         /\ hist' = [hist EXCEPT ![r].read_version = IF res.ok THEN res.val.version ELSE @,
                                 ![r].read_status = IF res.ok THEN res.val.status ELSE @,
                                 ![r].read_intent = IF res.ok THEN res.val ELSE @,
                                 ![r].intent_reads = @ + 1,
                                 ![r].storage_schemes = @ \cup {GetTrackersStorageScheme}]
         /\ err' = [err EXCEPT ![r] =
                      IF res.ok THEN None
                      ELSE ToNotFoundResponse(res.error, IntentNotFoundError)]
         /\ cause' = [cause EXCEPT ![r] = res.error]
         /\ pc' = [pc EXCEPT ![r] = Propagate(res.ok, GetTrackersStepAfter("find_intent"))]
    /\ calls' = [calls EXCEPT ![r] = Append(@, "get_trackers")]
    /\ UnchangedStore
    /\ UNCHANGED <<payment_id, request, validate_result>>
    /\ UnchangedOthers

\* get_trackers: build the attempt and insert it.
GetTrackersInsertAttempt(r) ==
    /\ pc[r] = "insert_attempt"
    /\ \E fault \in BOOLEAN :
         LET id == GenerateGlobalAttemptId(CellId, r)
             payment_attempt_domain_model ==
                 CreateDomainModelFromRequest(
                     request[r], payment_data[r].payment_intent,
                     GetTrackersStorageScheme, id)
             res == InsertPaymentAttempt(payment_attempt_domain_model, fault)
         IN
         /\ attempts' = IF res.ok THEN attempts @@ (res.val.id :> res.val)
                        ELSE attempts
         /\ payment_data' = [payment_data EXCEPT ![r].payment_attempt = res.val]
         /\ hist' = [hist EXCEPT ![r].inserted = res.val,
                                 ![r].insert_res = IF res.ok THEN "ok" ELSE res.error,
                                 ![r].storage_schemes = @ \cup {GetTrackersStorageScheme}]
         /\ err' = [err EXCEPT ![r] =
                      IF res.ok THEN None
                      ELSE ChangeContext(res.error, "InternalServerError")]
         /\ cause' = [cause EXCEPT ![r] = res.error]
         /\ pc' = [pc EXCEPT ![r] = Propagate(res.ok, GetTrackersStepAfter("insert_attempt"))]
    /\ UNCHANGED <<intents, merchant_account, payment_id, request,
                   validate_result, calls>>
    /\ UnchangedOthers

\* get_trackers: look the business profile up and build the bundle.
GetTrackersFindProfile(r) ==
    /\ pc[r] = "find_profile"
    /\ \E fault \in BOOLEAN :
         LET res == FindBusinessProfileByProfileId(
                        payment_data[r].payment_intent.profile_id, fault) IN
         /\ payment_data' = [payment_data EXCEPT ![r].payment_method_data =
                               IF res.ok THEN "card" ELSE @]
         /\ err' = [err EXCEPT ![r] =
                      IF res.ok THEN None
                      ELSE ToNotFoundResponse(res.error, "ProfileNotFound")]
         /\ cause' = [cause EXCEPT ![r] = res.error]
         /\ pc' = [pc EXCEPT ![r] = Propagate(res.ok, GetTrackersStepAfter("find_profile"))]
         /\ hist' = [hist EXCEPT ![r].profile_res = IF res.ok THEN "ok" ELSE res.error]
    /\ UnchangedStore
    /\ UNCHANGED <<payment_id, request, validate_result, calls>>
    /\ UnchangedOthers

\* --------------------------------------------------------------- stage 3

\* get_customer_details: Ok((operation, None)).
GetCustomerDetails(r) ==
    /\ pc[r] = "get_customer_details"
    /\ hist' = [hist EXCEPT ![r].customer = GetCustomerDetailsCustomer]
    /\ payment_data' = [payment_data EXCEPT ![r] = GetCustomerDetailsBundle(@)]
    /\ calls' = [calls EXCEPT ![r] = Append(@, "get_customer_details")]
    /\ pc' = [pc EXCEPT ![r] = RunnerNext("get_customer_details")]
    /\ UnchangedStore
    /\ UNCHANGED <<payment_id, request, validate_result, err, cause>>
    /\ UnchangedOthers

\* make_pm_data: Ok((operation, None, None)).
MakePmData(r) ==
    /\ pc[r] = "make_pm_data"
    /\ hist' = [hist EXCEPT ![r].pm_data = MakePmDataPaymentMethodData]
    /\ payment_data' = [payment_data EXCEPT ![r] = MakePmDataBundle(@)]
    /\ calls' = [calls EXCEPT ![r] = Append(@, "make_pm_data")]
    /\ pc' = [pc EXCEPT ![r] = RunnerNext("make_pm_data")]
    /\ UnchangedStore
    /\ UNCHANGED <<payment_id, request, validate_result, err, cause>>
    /\ UnchangedOthers

\* get_connector: todo!(), the task panics.
GetConnector(r) ==
    /\ pc[r] = "route"
    /\ calls' = [calls EXCEPT ![r] = Append(@, "get_connector")]
    /\ pc' = [pc EXCEPT ![r] = "panicked"]
    /\ UnchangedStore
    /\ UNCHANGED <<payment_id, request, validate_result, payment_data, err, cause, hist>>
    /\ UnchangedOthers

\* The routing decision is contributed from outside the operation: the
\* bundle's attempt reaches update_trackers with the routing fields it left.
AssignConnector(r, connector, merchant_connector_id) ==
    /\ pc[r] = "route"
    /\ payment_data' =
         [payment_data EXCEPT
            ![r].payment_attempt.connector = connector,
            ![r].payment_attempt.merchant_connector_id = merchant_connector_id]
    /\ pc' = [pc EXCEPT ![r] = RunnerNext("route")]
    /\ UnchangedStore
    /\ UNCHANGED <<payment_id, request, validate_result, err, cause, calls, hist>>
    /\ UnchangedOthers

\* --------------------------------------------------------------- stage 4

\* update_trackers' entry: the two required values are taken from the
\* bundle's attempt before any storage call is made.
UpdateTrackersMissingValue(r) ==
    /\ pc[r] = "update_first"
    /\ MissingRequiredField(payment_data[r].payment_attempt) # None
    /\ hist' = [hist EXCEPT ![r].missing_field =
                  MissingRequiredField(payment_data[r].payment_attempt)]
    /\ err' = [err EXCEPT ![r] = "MissingRequiredField"]
    /\ calls' = [calls EXCEPT ![r] = Append(@, "update_trackers")]
    /\ pc' = [pc EXCEPT ![r] = Propagate(FALSE, "update_first")]
    /\ UnchangedStore
    /\ UNCHANGED <<payment_id, request, validate_result, payment_data, cause>>
    /\ UnchangedOthers

\* update_trackers: update_payment_intent with the ConfirmIntent delta.
UpdateTrackersIntent(r) ==
    /\ pc[r] = UpdateStepOf("intent")
    /\ pc[r] = "update_first" =>
         MissingRequiredField(payment_data[r].payment_attempt) = None
    /\ \E fault \in BOOLEAN :
         LET payment_intent_update ==
                 PaymentIntentUpdateConfirmIntent(validate_result[r].storage_scheme)
             current_payment_intent == CurrentPaymentIntent(r)
             res == UpdatePaymentIntent(current_payment_intent,
                                        payment_intent_update, fault)
         IN
         /\ intents' = IF res.ok
                       THEN [intents EXCEPT ![current_payment_intent.id] = res.val]
                       ELSE intents
         /\ payment_data' = [payment_data EXCEPT ![r] =
                               IF res.ok
                               THEN AssignUpdatedPaymentIntent(@, res.val)
                               ELSE @]
         /\ hist' = [hist EXCEPT ![r].intent_res = IF res.ok THEN "ok" ELSE res.error,
                                 ![r].prior_sent = current_payment_intent,
                                 ![r].payment_intent_update = payment_intent_update,
                                 ![r].updated_intent = IF res.ok THEN res.val ELSE @,
                                 ![r].received =
                                     IF pc[r] = "update_first" THEN payment_data[r] ELSE @,
                                 ![r].storage_schemes =
                                     @ \cup {validate_result[r].storage_scheme}]
         /\ err' = [err EXCEPT ![r] =
                      IF res.ok THEN None
                      ELSE ChangeContext(res.error, "InternalServerError")]
         /\ cause' = [cause EXCEPT ![r] = res.error]
         /\ pc' = [pc EXCEPT ![r] = Propagate(res.ok, AfterUpdateStep(pc[r]))]
    /\ calls' = [calls EXCEPT ![r] =
                   IF pc[r] = "update_first" THEN Append(@, "update_trackers") ELSE @]
    /\ UNCHANGED <<attempts, merchant_account, payment_id, request,
                   validate_result>>
    /\ UnchangedOthers

\* update_trackers: update_payment_attempt with the ConfirmIntent delta.
UpdateTrackersAttempt(r) ==
    /\ pc[r] = UpdateStepOf("attempt")
    /\ pc[r] = "update_first" =>
         MissingRequiredField(payment_data[r].payment_attempt) = None
    /\ \E fault \in BOOLEAN :
         LET payment_attempt_update ==
                 PaymentAttemptUpdateConfirmIntent(
                     validate_result[r].storage_scheme,
                     payment_data[r].payment_attempt.connector,
                     payment_data[r].payment_attempt.merchant_connector_id)
             current_payment_attempt == CurrentPaymentAttempt(r)
             res == UpdatePaymentAttempt(current_payment_attempt,
                                         payment_attempt_update, fault)
         IN
         /\ attempts' = IF res.ok
                        THEN [attempts EXCEPT ![current_payment_attempt.id] = res.val]
                        ELSE attempts
         /\ payment_data' = [payment_data EXCEPT ![r] =
                               IF res.ok
                               THEN AssignUpdatedPaymentAttempt(@, res.val)
                               ELSE @]
         /\ hist' = [hist EXCEPT ![r].attempt_res = IF res.ok THEN "ok" ELSE res.error,
                                 ![r].attempt_prior_sent = current_payment_attempt,
                                 ![r].payment_attempt_update = payment_attempt_update,
                                 ![r].updated_attempt = IF res.ok THEN res.val ELSE @,
                                 ![r].received =
                                     IF pc[r] = "update_first" THEN payment_data[r] ELSE @,
                                 ![r].storage_schemes =
                                     @ \cup {validate_result[r].storage_scheme}]
         /\ err' = [err EXCEPT ![r] =
                      IF res.ok THEN None
                      ELSE ChangeContext(res.error, "InternalServerError")]
         /\ cause' = [cause EXCEPT ![r] = res.error]
         /\ pc' = [pc EXCEPT ![r] = Propagate(res.ok, AfterUpdateStep(pc[r]))]
    /\ calls' = [calls EXCEPT ![r] =
                   IF pc[r] = "update_first" THEN Append(@, "update_trackers") ELSE @]
    /\ UNCHANGED <<intents, merchant_account, payment_id, request,
                   validate_result>>
    /\ UnchangedOthers

\* ------------------------------------------------------------------ Next

Next ==
    \E r \in Runs :
        \/ \E pid \in PaymentIds, req \in PipelineRequests :
               ValidateRequest(r, pid, req)
        \/ GetTrackersFindIntent(r)
        \/ GetTrackersInsertAttempt(r)
        \/ GetTrackersFindProfile(r)
        \/ GetCustomerDetails(r)
        \/ MakePmData(r)
        \/ GetConnector(r)
        \/ \E c \in Connectors, m \in MerchantConnectorIds : AssignConnector(r, c, m)
        \/ UpdateTrackersMissingValue(r)
        \/ UpdateTrackersIntent(r)
        \/ UpdateTrackersAttempt(r)

Spec == Init /\ [][Next]_vars

\* validate_request alone, over every request.
NextValidate ==
    \E r \in Runs, pid \in PaymentIds, req \in ConfirmRequests :
        ValidateRequest(r, pid, req)

SpecValidate == Init /\ [][NextValidate]_vars

\* ------------------------------------------ PaymentMethodCreate::validate

\* The payment methods and payment method types a PaymentMethodCreate names.
CreatePaymentMethods == {"card", "wallet", "bank_redirect", "pay_later"}

CreatePaymentMethodTypes ==
    {"credit", "debit", "apple_pay", "google_pay", "ideal", "klarna"}

\* The builds of the trait's implementation: without and with the
\* payment_methods_v2 feature.
CreateVariants == {"v1", "payment_methods_v2"}

\* Without payment_methods_v2 both fields are optional; with it both are
\* always present.
PaymentMethodCreates ==
    [variant : {"v1"},
     payment_method : CreatePaymentMethods \cup {None},
     payment_method_type : CreatePaymentMethodTypes \cup {None},
     result : {"not_called"}]
    \cup
    [variant : {"payment_methods_v2"},
     payment_method : CreatePaymentMethods,
     payment_method_type : CreatePaymentMethodTypes,
     result : {"not_called"}]

\* validate applying the helper to the two fields as they are, an absent
\* field included.
PaymentMethodCreateValidateAbsentChecked(payment_method, payment_method_type) ==
    IF ~ ValidatePaymentMethodTypeAgainstPaymentMethod(payment_method,
                                                       payment_method_type)
    THEN "InvalidRequestData"
    ELSE "Ok"

\* validate without payment_methods_v2: the helper is asked only inside the
\* two `if let Some`.
PaymentMethodCreateValidate(payment_method, payment_method_type) ==
    IF payment_method # None
    THEN IF payment_method_type # None
         THEN IF ~ ValidatePaymentMethodTypeAgainstPaymentMethod(
                       payment_method, payment_method_type)
              THEN "InvalidRequestData"
              ELSE "Ok"
         ELSE "Ok"
    ELSE "Ok"

\* validate with payment_methods_v2.
PaymentMethodCreateValidateV2(payment_method, payment_method_type) ==
    IF ~ ValidatePaymentMethodTypeAgainstPaymentMethod(payment_method,
                                                       payment_method_type)
    THEN "InvalidRequestData"
    ELSE "Ok"

UnchangedConfirm ==
    UNCHANGED <<intents, attempts, merchant_account, pc, payment_id, request,
                validate_result, payment_data, err, cause, calls, hist>>

InitPaymentMethodCreate ==
    /\ ConfirmAtRest
    /\ pm_create \in PaymentMethodCreates
    /\ metrics = NoLoadMetrics

ValidatePaymentMethodCreate ==
    /\ pm_create.variant = "v1"
    /\ pm_create.result = "not_called"
    /\ pm_create' = [pm_create EXCEPT !.result =
                       PaymentMethodCreateValidate(pm_create.payment_method,
                                                   pm_create.payment_method_type)]
    /\ UnchangedConfirm
    /\ UNCHANGED metrics

ValidatePaymentMethodCreateV2 ==
    /\ pm_create.variant = "payment_methods_v2"
    /\ pm_create.result = "not_called"
    /\ pm_create' = [pm_create EXCEPT !.result =
                       PaymentMethodCreateValidateV2(pm_create.payment_method,
                                                     pm_create.payment_method_type)]
    /\ UnchangedConfirm
    /\ UNCHANGED metrics

NextPaymentMethodCreate ==
    \/ ValidatePaymentMethodCreate
    \/ ValidatePaymentMethodCreateV2

SpecPaymentMethodCreate ==
    InitPaymentMethodCreate /\ [][NextPaymentMethodCreate]_vars

\* ------------------------------------------ FailureReasons::load_metrics

MaxTime == 2
MaxRows == 2

\* Instants, in units of which a granularity's bucket is a whole number.
Times == 0..MaxTime

\* An Option<T>: Absent, or Some(v).
Absent == <<>>

Some(v) == <<v>>

Unwrap(o) == o[1]

Options(S) == {Absent} \cup {Some(v) : v \in S}

\* A granularity, given by its bucket size.
Granularities == {2}

\* The request's time range; its end_time is optional.
TimeRanges ==
    {[start_time |-> 1, end_time |-> Some(2)],
     [start_time |-> 1, end_time |-> Absent]}

\* A PaymentMetricRow: the two aggregates the bucket is computed from.
PaymentMetricRows == [start_bucket : Options(Times), end_bucket : Options(Times)]

RowSeqs == UNION {[1..n -> PaymentMetricRows] : n \in 0..MaxRows}

\* What execute_query answers: the rows, or one of its two errors.
QueryErrors == {"QueryBuildingError", "QueryExecutionFailure"}

NoMetricsResult == [ok |-> FALSE, rows |-> {}, error |-> "not_called"]

MetricsOk(rows) == [ok |-> TRUE, rows |-> rows, error |-> None]

MetricsErr(e) == [ok |-> FALSE, rows |-> {}, error |-> e]

ClipOk(v) == [ok |-> TRUE, val |-> v]

ClipErr == [ok |-> FALSE, val |-> Absent]

\* Granularity::clip_to_start and clip_to_end: the first and the last instant
\* of the bucket the value lies in; `unclippable` is the value, if any, for
\* which building the clipped time fails.
ClipToStart(g, value, unclippable) ==
    IF Some(value) = unclippable THEN ClipErr
    ELSE ClipOk(value - (value % g))

ClipToEnd(g, value, unclippable) ==
    IF Some(value) = unclippable THEN ClipErr
    ELSE ClipOk(value + g - 1 - (value % g))

\* start_time of a row's bucket.
BucketStartTime(granularity, i, time_range, unclippable) ==
    IF granularity # Absent /\ i.start_bucket # Absent
    THEN ClipToStart(Unwrap(granularity), Unwrap(i.start_bucket), unclippable)
    ELSE ClipOk(time_range.start_time)

\* end_time of a row's bucket, with the request's end_time for a row that
\* has no end_bucket.
BucketEndTimeFallingBack(granularity, i, time_range, unclippable) ==
    IF granularity = Absent \/ i.end_bucket = Absent
    THEN ClipOk(time_range.end_time)
    ELSE LET et == ClipToEnd(Unwrap(granularity), Unwrap(i.end_bucket), unclippable)
         IN IF et.ok THEN ClipOk(Some(et.val)) ELSE ClipErr

\* end_time of a row's bucket: map_or_else over the granularity, then map and
\* transpose over the row's end_bucket.
BucketEndTime(granularity, i, time_range, unclippable) ==
    IF granularity = Absent THEN ClipOk(time_range.end_time)
    ELSE IF i.end_bucket = Absent THEN ClipOk(Absent)
    ELSE LET et == ClipToEnd(Unwrap(granularity), Unwrap(i.end_bucket), unclippable)
         IN IF et.ok THEN ClipOk(Some(et.val)) ELSE ClipErr

\* The closure applied to a row: the (bucket identifier, row) pair, or the
\* first clipping error.
BucketOfRow(granularity, i, time_range, unclippable) ==
    LET start_time == BucketStartTime(granularity, i, time_range, unclippable)
        end_time == BucketEndTime(granularity, i, time_range, unclippable)
    IN
    IF ~ start_time.ok THEN ClipErr
    ELSE IF ~ end_time.ok THEN ClipErr
    ELSE ClipOk(<<[start_time |-> start_time.val, end_time |-> end_time.val], i>>)

\* collect into a Result of a HashSet: the set of the pairs, or an error if
\* any row gave one.
CollectBuckets(granularity, rows, time_range, unclippable) ==
    IF \E k \in DOMAIN rows :
           ~ BucketOfRow(granularity, rows[k], time_range, unclippable).ok
    THEN MetricsErr("PostProcessingError")
    ELSE MetricsOk({BucketOfRow(granularity, rows[k], time_range, unclippable).val :
                       k \in DOMAIN rows})

\* load_metrics from the query's answer on.
LoadMetrics(query, granularity, rows, time_range, unclippable) ==
    IF query \in QueryErrors THEN MetricsErr(query)
    ELSE LET collected == CollectBuckets(granularity, rows, time_range, unclippable)
         IN IF collected.ok THEN collected
            ELSE MetricsErr("PostProcessingFailure")

LoadMetricsCalls ==
    [called : {FALSE}, query : {"Ok"}, granularity : Options(Granularities),
     time_range : TimeRanges, rows : RowSeqs, unclippable : Options(Times),
     result : {NoMetricsResult}]
    \cup
    [called : {FALSE}, query : QueryErrors, granularity : Options(Granularities),
     time_range : TimeRanges, rows : {<<>>}, unclippable : {Absent},
     result : {NoMetricsResult}]

InitLoadMetrics ==
    /\ ConfirmAtRest
    /\ pm_create = NoPaymentMethodCreate
    /\ metrics \in LoadMetricsCalls

LoadMetricsCall ==
    /\ ~ metrics.called
    /\ metrics' = [metrics EXCEPT
                     !.called = TRUE,
                     !.result = LoadMetrics(metrics.query, metrics.granularity,
                                            metrics.rows, metrics.time_range,
                                            metrics.unclippable)]
    /\ UnchangedConfirm
    /\ UNCHANGED pm_create

NextLoadMetrics == LoadMetricsCall

SpecLoadMetrics == InitLoadMetrics /\ [][NextLoadMetrics]_vars

\* ----------------------------------------------------------- properties

Inserted(r) == hist[r].inserted # NoAttempt

AttemptIdOf(r) == hist[r].inserted.id

\* The runs that read intent version v of payment p in get_trackers and whose
\* update_payment_intent was decided by the store's version check.
AnsweredReaders(p, v) ==
    {r \in Runs : /\ payment_id[r] = p
                  /\ hist[r].read_version = v
                  /\ hist[r].intent_res \in {"ok", "Conflict"}}

\* C1: Confirm runs on one intent that read the same prior intent version in
\* get_trackers and whose intent updates both reach the store's version check:
\* exactly one update_payment_intent succeeds, every other one fails with
\* Conflict, and the attempt a losing run inserted is still persisted with
\* status Started.
C1_OneSuccessOneConflict ==
    \A p \in PaymentIds, v \in 0..MaxRuns :
        LET S == AnsweredReaders(p, v) IN
        S # {} =>
            /\ Cardinality({r \in S : hist[r].intent_res = "ok"}) = 1
            /\ \A r \in S :
                 hist[r].intent_res = "Conflict" =>
                     /\ pc[r] = "failed"
                     /\ AttemptIdOf(r) \in DOMAIN attempts
                     /\ attempts[AttemptIdOf(r)].status = "Started"

C1_Witness ==
    \E r1, r2 \in Runs :
        /\ r1 # r2
        /\ payment_id[r1] = payment_id[r2]
        /\ hist[r1].read_version = hist[r2].read_version
        /\ hist[r1].intent_res = "ok"
        /\ hist[r2].intent_res = "Conflict"
        /\ AttemptIdOf(r2) \in DOMAIN attempts
        /\ attempts[AttemptIdOf(r2)].status = "Started"

\* C2: once the persisted intent status is terminal (Succeeded, Failed or
\* Cancelled), no step of a Confirm run changes it to a non-terminal status.
C2_TerminalStaysTerminal ==
    [][\A p \in DOMAIN intents :
          intents[p].status \in TerminalIntentStatus =>
              intents'[p].status \in TerminalIntentStatus]_vars

\* C3: every persisted attempt has connector set if and only if
\* merchant_connector_id is set.
C3_NeverHalfRouted ==
    \A a \in DOMAIN attempts :
        (attempts[a].connector = None) <=> (attempts[a].merchant_connector_id = None)

C3_Witness ==
    \E a \in DOMAIN attempts :
        /\ attempts[a].status = "Pending"
        /\ attempts[a].connector # None
        /\ attempts[a].merchant_connector_id # None

\* C4: a Confirm run on an intent read in status RequiresConfirmation that
\* completes its four stages (every call succeeding) ends with the intent
\* persisted as Processing, its own attempt moved from Started to Pending,
\* and the attempt's net_amount equal to the intent's order amount.
C4_HappyPath ==
    \A r \in Runs :
        (pc[r] = "done" /\ hist[r].read_status = "RequiresConfirmation") =>
            /\ calls[r] = <<"validate_request", "get_trackers",
                            "get_customer_details", "make_pm_data",
                            "update_trackers">>
            /\ intents[payment_id[r]].status = "Processing"
            /\ hist[r].inserted.status = "Started"
            /\ attempts[AttemptIdOf(r)].status = "Pending"
            /\ attempts[AttemptIdOf(r)].net_amount = intents[payment_id[r]].order_amount
            /\ attempts[AttemptIdOf(r)].net_amount \in OrderAmounts

C4_Witness ==
    \E r \in Runs :
        /\ pc[r] = "done"
        /\ hist[r].read_status = "RequiresConfirmation"
        /\ intents[payment_id[r]].status = "Processing"
        /\ attempts[AttemptIdOf(r)].status = "Pending"

\* C5: when the bundle's attempt reaches update_trackers with connector or
\* merchant_connector_id absent, the step of update_trackers fails with a
\* required-value error and leaves the persisted intents and attempts as
\* they were.
C5_MissingRoutingFailsWithoutWrite ==
    [][\A r \in Runs :
          (/\ pc[r] = "update_first"
           /\ pc'[r] # pc[r]
           /\ \/ payment_data[r].payment_attempt.connector = None
              \/ payment_data[r].payment_attempt.merchant_connector_id = None) =>
              /\ pc'[r] = "failed"
              /\ err'[r] = "MissingRequiredField"
              /\ intents' = intents
              /\ attempts' = attempts]_vars

C5_Witness ==
    \E r \in Runs :
        /\ pc[r] = "failed"
        /\ err[r] = "MissingRequiredField"
        /\ hist[r].missing_field = "merchant_connector_id"
        /\ payment_data[r].payment_attempt.connector # None
        /\ intents[payment_id[r]].version = 0

\* The stages of the calls of a run, in call order.
StagesCalled(r) == [i \in DOMAIN calls[r] |-> StageOf(calls[r][i])]

InStageOrder(s) ==
    /\ Len(s) > 0 => s[1] = 1
    /\ \A i \in 1..(Len(s) - 1) : s[i + 1] \in {s[i], s[i] + 1}

\* C6: the stages of a run are called in the order Validate, Fetch-or-Create
\* Tracker, Domain Enrichment, Persist Update, none skipped; a run that got
\* an error from a stage is failed, and a failed run calls nothing more and
\* stays failed (so no later stage, and no storage write, follows a failure).
C6_StageOrderAndAbort ==
    /\ [](\A r \in Runs :
             /\ InStageOrder(StagesCalled(r))
             /\ (err[r] # None) <=> (pc[r] = "failed"))
    /\ [][\A r \in Runs :
             pc[r] = "failed" =>
                 /\ pc'[r] = "failed"
                 /\ calls'[r] = calls[r]
                 /\ err'[r] = err[r]
                 /\ payment_data'[r] = payment_data[r]]_vars

C6_Witness ==
    \E r1, r2 \in Runs :
        /\ pc[r1] = "failed"
        /\ calls[r1] = <<"validate_request", "get_trackers">>
        /\ pc[r2] = "done"
        /\ StagesCalled(r2) = <<1, 2, 3, 3, 4>>

\* C7: there is no state in which a run has failed while its intent update
\* (status Processing) is persisted and its attempt update (status Pending)
\* is not.
C7_NoPartialWrite ==
    \A r \in Runs :
        ~ (/\ pc[r] = "failed"
           /\ hist[r].intent_res = "ok"
           /\ intents[payment_id[r]] = payment_data[r].payment_intent
           /\ intents[payment_id[r]].status = "Processing"
           /\ attempts[AttemptIdOf(r)].status # "Pending")

\* C8: the attempt get_trackers inserted stays in the store in every later
\* state, and when the run fails (or dies) in a later stage the persisted
\* attempt is exactly the inserted one, with status Started.
C8_AttemptNeverRolledBack ==
    \A r \in Runs :
        Inserted(r) =>
            /\ AttemptIdOf(r) \in DOMAIN attempts
            /\ pc[r] \in {"failed", "panicked"} =>
                 /\ attempts[AttemptIdOf(r)] = hist[r].inserted
                 /\ attempts[AttemptIdOf(r)].status = "Started"

C8_Witness ==
    \E r \in Runs :
        /\ pc[r] = "failed"
        /\ Inserted(r)
        /\ hist[r].intent_res = "Conflict"
        /\ attempts[AttemptIdOf(r)].status = "Started"

\* C9: every failure of a run has one of the categories not-found,
\* validation, conflict, internal, and a run whose update_trackers got
\* Conflict from the storage layer fails with a conflict-category error.
C9_ConflictSurfacedAsConflict ==
    \A r \in Runs :
        pc[r] = "failed" =>
            /\ ErrorCategory(err[r]) \in ErrorCategories
            /\ (cause[r] = "Conflict" => ErrorCategory(err[r]) = "conflict")

\* C10: the step of get_trackers that looks up a payment id with no persisted
\* intent fails the run and inserts no attempt (the persisted attempts are
\* the same before and after); the error is PaymentNotFound whenever the
\* store answered the lookup.
C10_MissingIntentNotFound ==
    [][\A r \in Runs :
          (/\ pc[r] = "find_intent"
           /\ pc'[r] # pc[r]
           /\ payment_id[r] \notin DOMAIN intents) =>
              /\ pc'[r] = "failed"
              /\ attempts' = attempts
              /\ ~ Inserted(r)'
              /\ cause'[r] \in {"ValueNotFound", "DatabaseError"}
              /\ cause'[r] = "ValueNotFound" => err'[r] = "PaymentNotFound"
              /\ cause'[r] = "DatabaseError" => err'[r] = "InternalServerError"]_vars

C10_Witness ==
    \E r \in Runs :
        /\ pc[r] = "failed"
        /\ payment_id[r] \notin DOMAIN intents
        /\ err[r] = "PaymentNotFound"
        /\ calls[r] = <<"validate_request", "get_trackers">>
        /\ ~ Inserted(r)

\* C11: a run whose request names a payment method subtype that does not
\* belong to its payment method type fails in validate_request with a
\* validation error, and goes on to no later stage.
C11_InconsistentRequestRejected ==
    \A r \in Runs :
        (/\ pc[r] # "idle"
         /\ ~ ValidatePaymentMethodTypeAgainstPaymentMethod(
                  request[r].payment_method_type,
                  request[r].payment_method_subtype)) =>
            /\ pc[r] = "failed"
            /\ ErrorCategory(err[r]) = "validation"
            /\ calls[r] = <<"validate_request">>

\* The step of run r that leaves position p.
StepFrom(r, p) == pc[r] = p /\ pc'[r] # p

\* C12: the insert step of get_trackers (reached by every call that found
\* the intent) adds exactly one attempt, under an id no persisted attempt
\* has, with status Started, connector None, merchant_connector_id None and
\* the intent's id as payment_id, and leaves the other attempts as they
\* were; the store never answers it with a duplicate; no other step changes
\* the set of persisted attempts; so the runs that inserted have as many
\* distinct attempts.
C12_OneFreshStartedAttemptPerCall ==
    /\ [][\A r \in Runs :
             StepFrom(r, "insert_attempt") =>
                 /\ cause'[r] \in {None, "DatabaseError"}
                 /\ cause'[r] = None =>
                      \E a \in DOMAIN attempts' :
                          /\ a \notin DOMAIN attempts
                          /\ DOMAIN attempts' = DOMAIN attempts \cup {a}
                          /\ \A b \in DOMAIN attempts : attempts'[b] = attempts[b]
                          /\ attempts'[a].id = a
                          /\ attempts'[a].status = "Started"
                          /\ attempts'[a].connector = None
                          /\ attempts'[a].merchant_connector_id = None
                          /\ attempts'[a].payment_id = payment_data[r].payment_intent.id
                          /\ attempts'[a].payment_id = payment_id[r]
                          /\ hist'[r].inserted = attempts'[a]
                 /\ cause'[r] # None => attempts' = attempts]_vars
    /\ [][(\A r \in Runs : ~ StepFrom(r, "insert_attempt")) =>
             DOMAIN attempts' = DOMAIN attempts]_vars
    /\ [](Cardinality(DOMAIN attempts) = Cardinality({r \in Runs : Inserted(r)}))

C12_Witness ==
    /\ Cardinality(DOMAIN attempts) = 2
    /\ \E r1, r2 \in Runs :
        /\ r1 # r2
        /\ payment_id[r1] = payment_id[r2]
        /\ Inserted(r1) /\ Inserted(r2)
        /\ AttemptIdOf(r1) # AttemptIdOf(r2)
        /\ attempts[AttemptIdOf(r2)].status = "Started"
        /\ pc[r1] = "done"

\* C13: a run in which get_connector was invoked ends failed, with an error
\* value of the internal category returned to the caller (not a task that
\* died, and not a run that went on as if nothing happened).
C13_GetConnectorReturnsInternalError ==
    \A r \in Runs :
        (\E i \in DOMAIN calls[r] : calls[r][i] = "get_connector") =>
            /\ pc[r] = "failed"
            /\ err[r] # None
            /\ ErrorCategory(err[r]) = "internal"

\* C14: the steps get_customer_details and make_pm_data leave the persisted
\* intents and attempts unchanged, leave the intent and the attempt of the
\* run's bundle unchanged, and return no customer and no payment method data.
C14_DomainStageWritesNothing ==
    [][\A r \in Runs :
          /\ (StepFrom(r, "get_customer_details") \/ StepFrom(r, "make_pm_data")) =>
                 /\ intents' = intents
                 /\ attempts' = attempts
                 /\ payment_data'[r].payment_intent = payment_data[r].payment_intent
                 /\ payment_data'[r].payment_attempt = payment_data[r].payment_attempt
          /\ StepFrom(r, "get_customer_details") => hist'[r].customer = None
          /\ StepFrom(r, "make_pm_data") => hist'[r].pm_data = None]_vars

C14_Witness ==
    \E r \in Runs :
        /\ pc[r] = "route"
        /\ calls[r] = <<"validate_request", "get_trackers",
                        "get_customer_details", "make_pm_data">>
        /\ hist[r].customer = None
        /\ hist[r].pm_data = None
        /\ attempts[AttemptIdOf(r)] = hist[r].inserted
        /\ payment_data[r].payment_attempt = hist[r].inserted

\* C15: validate_request returns the merchant account's id and storage scheme
\* with requeue = false; every storage call of the run (the intent read, the
\* attempt insert, the two updates) is made with that scheme; and the
\* updated_by of the created attempt and of both ConfirmIntent deltas is that
\* scheme's name.
C15_StorageSchemePassedThrough ==
    \A r \in Runs :
        pc[r] # "idle" =>
            /\ validate_result[r] =
                 [merchant_id |-> merchant_account.id,
                  storage_scheme |-> merchant_account.storage_scheme,
                  requeue |-> FALSE]
            /\ hist[r].storage_schemes \subseteq {validate_result[r].storage_scheme}
            /\ Inserted(r) =>
                 hist[r].inserted.updated_by =
                     SchemeToString(validate_result[r].storage_scheme)
            /\ hist[r].payment_intent_update # NoIntentUpdate =>
                 hist[r].payment_intent_update.updated_by =
                     SchemeToString(validate_result[r].storage_scheme)
            /\ hist[r].payment_attempt_update # NoAttemptUpdate =>
                 hist[r].payment_attempt_update.updated_by =
                     SchemeToString(validate_result[r].storage_scheme)

C15_Witness ==
    \E r \in Runs :
        /\ pc[r] = "done"
        /\ validate_result[r].storage_scheme = "RedisKv"
        /\ hist[r].storage_schemes = {"RedisKv"}
        /\ hist[r].inserted.updated_by = "redis_kv"
        /\ hist[r].payment_intent_update.updated_by = "redis_kv"
        /\ hist[r].payment_attempt_update.updated_by = "redis_kv"
        /\ attempts[AttemptIdOf(r)].updated_by = "redis_kv"

\* C16 (as stated): a run reads the intent from storage exactly once; the
\* prior passed to update_payment_intent is the intent read in get_trackers,
\* and the prior passed to update_payment_attempt is the attempt returned by
\* the run's insert.
C16_PriorsAreReadAndInsertedValues ==
    \A r \in Runs :
        /\ hist[r].intent_reads <= 1
        /\ hist[r].prior_sent # NoIntent => hist[r].prior_sent = hist[r].read_intent
        /\ hist[r].attempt_prior_sent # NoAttempt =>
               hist[r].attempt_prior_sent = hist[r].inserted

\* C16 (amended): a run reads the intent from storage exactly once; the prior
\* passed to update_payment_intent is the intent read in get_trackers; the
\* prior passed to update_payment_attempt is the bundle's in-memory attempt,
\* which is the attempt returned by the run's insert with connector and
\* merchant_connector_id set in between (same id, status and updated_by), and
\* so differs from the inserted value in exactly the two routing fields.
C16_PriorsCarriedInMemory ==
    \A r \in Runs :
        /\ hist[r].intent_reads <= 1
        /\ hist[r].prior_sent # NoIntent => hist[r].prior_sent = hist[r].read_intent
        /\ hist[r].attempt_prior_sent # NoAttempt =>
               \E c \in Connectors \ {None}, m \in MerchantConnectorIds \ {None} :
                   hist[r].attempt_prior_sent =
                       [hist[r].inserted EXCEPT !.connector = c,
                                                !.merchant_connector_id = m]

C16_Witness ==
    \E r \in Runs :
        /\ pc[r] = "done"
        /\ hist[r].intent_reads = 1
        /\ hist[r].prior_sent = hist[r].read_intent
        /\ hist[r].attempt_prior_sent # hist[r].inserted
        /\ hist[r].attempt_prior_sent.id = hist[r].inserted.id
        /\ hist[r].attempt_prior_sent.connector # None

\* C17: in every reachable state every persisted attempt with status Pending
\* has both connector and merchant_connector_id set; and every attempt that
\* enters the store enters it with status Started.
C17_PendingIsRoutedAndStartedIsInitial ==
    /\ [](\A id \in DOMAIN attempts :
              attempts[id].status = "Pending" =>
                  /\ attempts[id].connector # None
                  /\ attempts[id].merchant_connector_id # None)
    /\ [][\A id \in DOMAIN attempts' :
              id \notin DOMAIN attempts => attempts'[id].status = "Started"]_vars

C17_Witness ==
    \E id \in DOMAIN attempts, other \in DOMAIN attempts :
        /\ attempts[id].status = "Pending"
        /\ attempts[id].connector = "stripe"
        /\ attempts[id].merchant_connector_id = "mca_1"
        /\ attempts[other].status = "Started"

\* C18: when update_trackers succeeds, the bundle it returns holds exactly the
\* intent and the attempt returned by the two storage updates, which are the
\* rows the store held when each update committed (the received ones with the
\* ConfirmIntent delta applied and the version advanced by one), and its
\* payment_method_data is the one update_trackers received.
C18_ReturnedBundleIsCommittedState ==
    /\ [](\A r \in Runs :
              pc[r] = "done" =>
                  /\ payment_data[r].payment_intent = hist[r].updated_intent
                  /\ payment_data[r].payment_attempt = hist[r].updated_attempt
                  /\ payment_data[r].payment_method_data =
                         hist[r].received.payment_method_data
                  /\ hist[r].updated_intent =
                         [hist[r].received.payment_intent EXCEPT
                            !.status = "Processing",
                            !.updated_by = hist[r].payment_intent_update.updated_by,
                            !.version = @ + 1]
                  /\ hist[r].updated_attempt =
                         [hist[r].received.payment_attempt EXCEPT
                            !.status = "Pending",
                            !.updated_by = hist[r].payment_attempt_update.updated_by,
                            !.version = @ + 1])
    /\ [][\A r \in Runs :
              /\ (pc[r] = UpdateStepOf("intent") /\ hist'[r].intent_res = "ok"
                    /\ hist[r].intent_res = None) =>
                     /\ hist'[r].updated_intent = intents'[payment_id[r]]
                     /\ payment_data'[r].payment_intent = intents'[payment_id[r]]
              /\ (pc[r] = UpdateStepOf("attempt") /\ hist'[r].attempt_res = "ok"
                    /\ hist[r].attempt_res = None) =>
                     /\ hist'[r].updated_attempt = attempts'[AttemptIdOf(r)]
                     /\ payment_data'[r].payment_attempt = attempts'[AttemptIdOf(r)]]_vars

C18_Witness ==
    \E r \in Runs :
        /\ pc[r] = "done"
        /\ payment_data[r].payment_intent = hist[r].updated_intent
        /\ payment_data[r].payment_intent.status = "Processing"
        /\ payment_data[r].payment_intent.version =
               hist[r].received.payment_intent.version + 1
        /\ payment_data[r].payment_attempt = hist[r].updated_attempt
        /\ payment_data[r].payment_attempt.status = "Pending"
        /\ hist[r].received.payment_attempt.status = "Started"
        /\ payment_data[r].payment_method_data # None

\* C19: in update_trackers the intent update is issued before the attempt
\* update, and the attempt update is issued only if the intent update
\* succeeded; hence every persisted Pending attempt was inserted by a run whose
\* ConfirmIntent update of its intent (to Processing) was already committed.
C19_IntentUpdateBeforeAttemptUpdate ==
    /\ [](\A r \in Runs :
              hist[r].attempt_res # None =>
                  /\ hist[r].intent_res = "ok"
                  /\ hist[r].updated_intent.status = "Processing")
    /\ [](\A id \in DOMAIN attempts :
              attempts[id].status = "Pending" =>
                  \E r \in Runs :
                      /\ Inserted(r)
                      /\ AttemptIdOf(r) = id
                      /\ hist[r].intent_res = "ok"
                      /\ hist[r].updated_intent.id = attempts[id].payment_id
                      /\ hist[r].updated_intent.status = "Processing"
                      /\ intents[attempts[id].payment_id].version >=
                             hist[r].updated_intent.version)
    /\ [][\A r \in Runs :
              (hist[r].attempt_res = None /\ hist'[r].attempt_res # None) =>
                  /\ hist[r].intent_res = "ok"
                  /\ intents = intents'
                  /\ intents[payment_id[r]].version >= hist[r].updated_intent.version]_vars

C19_Witness ==
    \E r \in Runs :
        /\ pc[r] = "failed"
        /\ hist[r].intent_res = "ok"
        /\ hist[r].attempt_res \notin {None, "ok"}
        /\ intents[payment_id[r]].status = "Processing"
        /\ attempts[AttemptIdOf(r)].status = "Started"
        /\ \E q \in Runs :
               /\ pc[q] = "done"
               /\ attempts[AttemptIdOf(q)].status = "Pending"
               /\ hist[q].intent_res = "ok"

\* C20: in get_trackers the attempt insert happens before the business-profile
\* lookup: a profile lookup is only made by a run whose insert succeeded; when
\* the intent exists but its profile is not found, the run fails with
\* ProfileNotFound and the attempt it inserted is persisted with status
\* Started; when the insert itself fails, the run fails with
\* InternalServerError and makes no profile lookup.
C20_InsertBeforeProfileLookup ==
    \A r \in Runs :
        /\ hist[r].profile_res # None => hist[r].insert_res = "ok"
        /\ (hist[r].read_intent # NoIntent /\ hist[r].profile_res = "ValueNotFound") =>
               /\ pc[r] = "failed"
               /\ err[r] = "ProfileNotFound"
               /\ Inserted(r)
               /\ AttemptIdOf(r) \in DOMAIN attempts
               /\ attempts[AttemptIdOf(r)] = hist[r].inserted
               /\ attempts[AttemptIdOf(r)].status = "Started"
        /\ err[r] = "ProfileNotFound" => hist[r].profile_res = "ValueNotFound"
        /\ hist[r].insert_res \notin {None, "ok"} =>
               /\ pc[r] = "failed"
               /\ err[r] = "InternalServerError"
               /\ hist[r].profile_res = None

C20_Witness ==
    \E r \in Runs, q \in Runs :
        /\ pc[r] = "failed"
        /\ err[r] = "ProfileNotFound"
        /\ attempts[AttemptIdOf(r)].status = "Started"
        /\ pc[q] = "failed"
        /\ hist[q].insert_res = "DatabaseError"
        /\ err[q] = "InternalServerError"
        /\ hist[q].profile_res = None

\* C21: without payment_methods_v2, validate returns InvalidRequestData
\* exactly when payment_method and payment_method_type are both present and
\* validate_payment_method_type_against_payment_method rejects the pair, and
\* Ok when either field is absent; with payment_methods_v2 it returns
\* InvalidRequestData exactly when the helper rejects the pair, Ok otherwise.
C21_ValidateRejectsExactlyMismatch ==
    (pm_create.variant \in CreateVariants /\ pm_create.result # "not_called") =>
        LET both == pm_create.payment_method # None
                    /\ pm_create.payment_method_type # None
            rejected == ~ ValidatePaymentMethodTypeAgainstPaymentMethod(
                              pm_create.payment_method,
                              pm_create.payment_method_type)
        IN
        /\ pm_create.result \in {"Ok", "InvalidRequestData"}
        /\ pm_create.variant = "v1" =>
               /\ (pm_create.result = "InvalidRequestData") <=> (both /\ rejected)
               /\ ~ both => pm_create.result = "Ok"
        /\ pm_create.variant = "payment_methods_v2" =>
               /\ both
               /\ (pm_create.result = "InvalidRequestData") <=> rejected

C21_Witness ==
    /\ pm_create.variant = "v1"
    /\ pm_create.payment_method = "card"
    /\ pm_create.payment_method_type = "apple_pay"
    /\ pm_create.result = "InvalidRequestData"

\* C22: when the query answered with rows, load_metrics pairs each row with a
\* bucket time range: with no granularity, the request time_range's start_time
\* and end_time; with a granularity, start is the row's start_bucket clipped to
\* the bucket start (time_range.start_time when start_bucket is absent) and end
\* is the row's end_bucket clipped to the bucket end (None when end_bucket is
\* absent); and if any clipping fails, the call fails with
\* PostProcessingFailure and returns no rows.
C22_BucketTimeRangeOfEachRow ==
    (metrics.called /\ metrics.query = "Ok") =>
        LET g == metrics.granularity
            u == metrics.unclippable
            tr == metrics.time_range
            Row(k) == metrics.rows[k]
            ClipFails(k) ==
                /\ g # Absent
                /\ \/ Row(k).start_bucket # Absent
                      /\ ~ ClipToStart(Unwrap(g), Unwrap(Row(k).start_bucket), u).ok
                   \/ Row(k).end_bucket # Absent
                      /\ ~ ClipToEnd(Unwrap(g), Unwrap(Row(k).end_bucket), u).ok
            Start(k) ==
                IF g = Absent \/ Row(k).start_bucket = Absent THEN tr.start_time
                ELSE ClipToStart(Unwrap(g), Unwrap(Row(k).start_bucket), u).val
            End(k) ==
                IF g = Absent THEN tr.end_time
                ELSE IF Row(k).end_bucket = Absent THEN Absent
                ELSE Some(ClipToEnd(Unwrap(g), Unwrap(Row(k).end_bucket), u).val)
        IN
        IF \E k \in DOMAIN metrics.rows : ClipFails(k)
        THEN /\ ~ metrics.result.ok
             /\ metrics.result.error = "PostProcessingFailure"
             /\ metrics.result.rows = {}
        ELSE /\ metrics.result.ok
             /\ metrics.result.rows =
                    {<<[start_time |-> Start(k), end_time |-> End(k)], Row(k)>> :
                         k \in DOMAIN metrics.rows}

C22_Witness ==
    /\ metrics.called
    /\ metrics.granularity = Some(2)
    /\ metrics.rows = <<[start_bucket |-> Some(1), end_bucket |-> Absent],
                        [start_bucket |-> Absent, end_bucket |-> Some(2)]>>
    /\ metrics.result.ok
    /\ metrics.result.rows =
           {<<[start_time |-> 0, end_time |-> Absent],
              [start_bucket |-> Some(1), end_bucket |-> Absent]>>,
            <<[start_time |-> 1, end_time |-> Some(3)],
              [start_bucket |-> Absent, end_bucket |-> Some(2)]>>}

====
